---- MODULE Spec2Model ----
(***************************************************************************)
(* Model of the ticket service (src/index.js): a collection of Ticket      *)
(* documents and the request handlers that create, update, delete,         *)
(* reserve and release seats on them.                                      *)
(*                                                                         *)
(* Every `await` on a storage call is a point where other requests run.    *)
(* Get, Create, Update and Delete issue one storage call, so each is one   *)
(* action.  Reserve and Release issue two (findById, then save), so each   *)
(* is two actions with the request's loaded document kept in between.      *)
(* save() on a loaded document sends a $set of the paths whose value was   *)
(* changed after loading (the database is told absolute values, not        *)
(* increments) and rejects when the document is no longer stored.          *)
(***************************************************************************)
EXTENDS Integers, FiniteSets, Sequences, TLC

VARIABLES tickets, nextId, reqs, clock

vars == <<tickets, nextId, reqs, clock>>

(* ------------------------------ bounds --------------------------------- *)
\* seat counts and quantities a caller may send go up to MaxSeats
MaxSeats == 2
\* identifiers the store ever hands out
MaxIds == 2
\* tickets stored at the same time
MaxLive == 1
\* Reserve/Release requests in flight at the same time (general model)
MaxReq == 1
\* Reserve/Release calls launched together in the concurrent scenarios
NumCalls == 3
\* distinct instants `new Date()` can return
MaxClock == 1

Ids == 1..MaxIds
\* a path parameter that is not a 24-hex-digit ObjectId string
BadId == 0
\* the identifiers a request may carry
RequestIds == Ids \cup {BadId}
\* request quantities: the handlers do not validate, zero and negatives arrive
Quantities == -1..MaxSeats
\* the positive quantities a well-behaved caller sends
ValidQuantities == 1..MaxSeats
\* stored seat counts the model follows
SeatVals == -1..(MaxSeats + 1)

(* ------------------------------ schema --------------------------------- *)
Statuses == {"active", "sold-out", "cancelled", "completed"}

\* a stored (or loaded) Ticket document: the seat counters, the status and
\* the modification stamp; `exists` is FALSE for an identifier with no document
NoTicket ==
  [exists |-> FALSE, totalSeats |-> 0, availableSeats |-> 0,
   status |-> "active", updatedAt |-> 0]

NewTicket(total, avail, st, now) ==
  [exists |-> TRUE, totalSeats |-> total, availableSeats |-> avail,
   status |-> st, updatedAt |-> now]

\* a request slot: free, between findById and save, or answered
Idle ==
  [pc |-> "idle", op |-> "none", id |-> 0, quantity |-> 0,
   orig |-> NoTicket, doc |-> NoTicket, resp |-> 0]

\* an error response carries no document
Answered(op, id, q, code) ==
  [pc |-> "done", op |-> op, id |-> id, quantity |-> q,
   orig |-> NoTicket, doc |-> NoTicket, resp |-> code]

\* res.json({ message, ticket }): the 200 response carries the saved document
Saved(s) == [s EXCEPT !.pc = "done", !.resp = 200]

\* res.json(ticket): the 200 response of Get carries the document it found
Found(id, t) ==
  [pc |-> "done", op |-> "get", id |-> id, quantity |-> 0,
   orig |-> NoTicket, doc |-> t, resp |-> 200]

Loaded(op, id, q, orig, doc) ==
  [pc |-> "save", op |-> op, id |-> id, quantity |-> q,
   orig |-> orig, doc |-> doc, resp |-> 0]

Live == {i \in Ids : tickets[i].exists}

(* --------------------------- handler logic ----------------------------- *)
\* variant of InsufficientSeats with the comparison off by one
InsufficientSeats_OffByOne(t, q) == t.availableSeats + 1 < q

\* reserve: `if (ticket.availableSeats < quantity)` -> 400
InsufficientSeats(t, q) == t.availableSeats < q

\* variant of ReserveDoc that tests for zero before the decrement
ReserveDoc_TestBeforeDecrement(t, q, now) ==
  [t EXCEPT !.availableSeats = @ - q,
            !.status = IF t.availableSeats = 0 THEN "sold-out" ELSE @,
            !.updatedAt = now]

\* reserve: the assignments made to the loaded document before save()
ReserveDoc(t, q, now) ==
  LET left == t.availableSeats - q
  IN  [t EXCEPT !.availableSeats = left,
                !.status = IF left = 0 THEN "sold-out" ELSE @,
                !.updatedAt = now]

\* variant of ReleaseDoc that reactivates without looking at the seat count
ReleaseDoc_NoSeatTest(t, q, now) ==
  [t EXCEPT !.availableSeats = @ + q,
            !.status = IF @ = "sold-out" THEN "active" ELSE @,
            !.updatedAt = now]

\* variant of ReleaseDoc that reactivates a ticket of any status
ReleaseDoc_AnyStatus(t, q, now) ==
  [t EXCEPT !.availableSeats = @ + q,
            !.status = IF t.availableSeats + q > 0 THEN "active" ELSE @,
            !.updatedAt = now]

\* variant of ReleaseDoc that clamps the seat count to totalSeats
ReleaseDoc_Clamped(t, q, now) ==
  LET seats == IF t.availableSeats + q > t.totalSeats
               THEN t.totalSeats ELSE t.availableSeats + q
  IN  [t EXCEPT !.availableSeats = seats,
                !.status = IF seats > 0 /\ @ = "sold-out" THEN "active" ELSE @,
                !.updatedAt = now]

\* release: the assignments made to the loaded document before save()
ReleaseDoc(t, q, now) ==
  LET seats == t.availableSeats + q
  IN  [t EXCEPT !.availableSeats = seats,
                !.status = IF seats > 0 /\ @ = "sold-out" THEN "active" ELSE @,
                !.updatedAt = now]

\* variant of SaveDoc that sends the seat count and leaves status to a later write
SaveDoc_SeatsFirst(stored, orig, doc) ==
  [stored EXCEPT
     !.availableSeats = IF doc.availableSeats # orig.availableSeats
                        THEN doc.availableSeats ELSE @]

\* variant of SaveDoc that writes the whole loaded document back
SaveDoc_WholeDocument(stored, orig, doc) == doc

\* ticket.save() of a loaded document: $set of the paths whose value differs
\* from the loaded one, applied to whatever is stored at that moment
SaveDoc(stored, orig, doc) ==
  [stored EXCEPT
     !.availableSeats = IF doc.availableSeats # orig.availableSeats
                        THEN doc.availableSeats ELSE @,
     !.status = IF doc.status # orig.status THEN doc.status ELSE @,
     !.updatedAt = IF doc.updatedAt # orig.updatedAt THEN doc.updatedAt ELSE @]

\* findByIdAndUpdate(id, body): $set of the fields the body supplies; the
\* handler always adds updatedAt.  Bodies are partial records.
UpdateBodies ==
  [status : Statuses]
    \cup [availableSeats : 0..MaxSeats]
    \cup [totalSeats : 1..MaxSeats]
    \cup [availableSeats : 0..MaxSeats, status : Statuses]
    \cup [totalSeats : 1..MaxSeats, availableSeats : 0..MaxSeats]

Supplies(body, field) == field \in DOMAIN body

UpdateDoc(t, body, now) ==
  [t EXCEPT
     !.totalSeats = IF Supplies(body, "totalSeats") THEN body.totalSeats ELSE @,
     !.availableSeats = IF Supplies(body, "availableSeats")
                        THEN body.availableSeats ELSE @,
     !.status = IF Supplies(body, "status") THEN body.status ELSE @,
     !.updatedAt = now]

(* ------------------------------ actions -------------------------------- *)
\* POST /api/tickets: new Ticket(req.body).save().  The document gets a fresh
\* _id (id = nextId) unless the body carries one: the whole body is handed to
\* the constructor, so a body with the _id of a ticket that was deleted
\* (id < nextId, nothing stored under it) is inserted under that _id.
Create(id, total, avail, st) ==
  /\ id \in Ids /\ id <= nextId
  /\ ~tickets[id].exists
  /\ Cardinality(Live) < MaxLive
  /\ tickets' = [tickets EXCEPT ![id] = NewTicket(total, avail, st, clock)]
  /\ nextId' = IF id = nextId THEN nextId + 1 ELSE nextId
  /\ UNCHANGED <<reqs, clock>>

\* PUT /api/tickets/:id (an unknown id answers 404 and stores nothing)
Update(id, body) ==
  /\ tickets' = IF tickets[id].exists
                THEN [tickets EXCEPT ![id] = UpdateDoc(@, body, clock)]
                ELSE tickets
  /\ UNCHANGED <<nextId, reqs, clock>>

\* DELETE /api/tickets/:id (an unknown id answers 404 and stores nothing)
Delete(id) ==
  /\ tickets' = IF tickets[id].exists
                THEN [tickets EXCEPT ![id] = NoTicket]
                ELSE tickets
  /\ UNCHANGED <<nextId, reqs, clock>>

\* findById casts the path parameter to an ObjectId and rejects (CastError)
\* when the string is not one
CastsToObjectId(id) == id \in Ids

\* GET /api/tickets/:id: the status code answered
GetCode(id) ==
  IF ~CastsToObjectId(id) THEN 500
  ELSE IF tickets[id].exists THEN 200 ELSE 404

\* GET /api/tickets/:id
Get(r, id) ==
  /\ reqs[r].pc = "idle"
  /\ reqs' = [reqs EXCEPT ![r] =
                IF GetCode(id) = 200 THEN Found(id, tickets[id])
                ELSE Answered("get", id, 0, GetCode(id))]
  /\ UNCHANGED <<tickets, nextId, clock>>

\* POST /api/tickets/:id/reserve, up to `await ticket.save()`
ReserveRead(r, id, q) ==
  /\ reqs[r].pc = "idle"
  /\ LET t == tickets[id]
     IN  IF ~t.exists
         THEN reqs' = [reqs EXCEPT ![r] = Answered("reserve", id, q, 404)]
         ELSE IF InsufficientSeats(t, q)
         THEN reqs' = [reqs EXCEPT ![r] = Answered("reserve", id, q, 400)]
         ELSE /\ ReserveDoc(t, q, clock).availableSeats \in SeatVals
              /\ reqs' = [reqs EXCEPT ![r] =
                            Loaded("reserve", id, q, t, ReserveDoc(t, q, clock))]
  /\ UNCHANGED <<tickets, nextId, clock>>

\* POST /api/tickets/:id/release, up to `await ticket.save()`
ReleaseRead(r, id, q) ==
  /\ reqs[r].pc = "idle"
  /\ LET t == tickets[id]
     IN  IF ~t.exists
         THEN reqs' = [reqs EXCEPT ![r] = Answered("release", id, q, 404)]
         ELSE /\ ReleaseDoc(t, q, clock).availableSeats \in SeatVals
              /\ reqs' = [reqs EXCEPT ![r] =
                            Loaded("release", id, q, t, ReleaseDoc(t, q, clock))]
  /\ UNCHANGED <<tickets, nextId, clock>>

\* variant of SaveWrite whose handler sends nothing when save() rejects
\* because the document is gone
SaveWrite_SilentWhenGone(r, op) ==
  /\ reqs[r].pc = "save"
  /\ reqs[r].op = op
  /\ LET id == reqs[r].id
     IN  IF tickets[id].exists
         THEN /\ tickets' = [tickets EXCEPT ![id] =
                               SaveDoc(@, reqs[r].orig, reqs[r].doc)]
              /\ reqs' = [reqs EXCEPT ![r] = Saved(@)]
         ELSE /\ tickets' = tickets
              /\ reqs' = reqs
  /\ UNCHANGED <<nextId, clock>>

\* `await ticket.save()` and the response, for reserve and release alike:
\* 200 with the document, or the catch block's 500 when save() rejects
\* because the document is gone
SaveWrite(r, op) ==
  /\ reqs[r].pc = "save"
  /\ reqs[r].op = op
  /\ LET id == reqs[r].id
     IN  IF tickets[id].exists
         THEN /\ tickets' = [tickets EXCEPT ![id] =
                               SaveDoc(@, reqs[r].orig, reqs[r].doc)]
              /\ reqs' = [reqs EXCEPT ![r] = Saved(@)]
         ELSE /\ tickets' = tickets
              /\ reqs' = [reqs EXCEPT ![r] =
                            Answered(op, id, reqs[r].quantity, 500)]
  /\ UNCHANGED <<nextId, clock>>

ReserveWrite(r) == SaveWrite(r, "reserve")

ReleaseWrite(r) == SaveWrite(r, "release")

\* findById rejects (the store is unreachable): the catch block answers 500
ReadFail(r, op, id, q) ==
  /\ reqs[r].pc = "idle"
  /\ reqs' = [reqs EXCEPT ![r] = Answered(op, id, q, 500)]
  /\ UNCHANGED <<tickets, nextId, clock>>

\* save() rejects (the store is unreachable): the catch block answers 500 and
\* the handler does not try again
SaveFail(r) ==
  /\ reqs[r].pc = "save"
  /\ reqs' = [reqs EXCEPT ![r] =
                Answered(reqs[r].op, reqs[r].id, reqs[r].quantity, 500)]
  /\ UNCHANGED <<tickets, nextId, clock>>

\* the response has been sent; the slot serves the next request
Finish(r) ==
  /\ reqs[r].pc = "done"
  /\ reqs' = [reqs EXCEPT ![r] = Idle]
  /\ UNCHANGED <<tickets, nextId, clock>>

\* wall-clock time read by `new Date()` moves on
Tick ==
  /\ clock < MaxClock
  /\ clock' = clock + 1
  /\ UNCHANGED <<tickets, nextId, reqs>>

(* --------------------------- specifications ---------------------------- *)
\* the store after seedDatabase(): a fresh ticket with every seat available
Seeded(total) ==
  [i \in Ids |-> IF i = 1 THEN NewTicket(total, total, "active", 0) ELSE NoTicket]

Init ==
  /\ tickets = Seeded(MaxSeats)
  /\ nextId = 2
  /\ reqs = [r \in 1..MaxReq |-> Idle]
  /\ clock = 0

Slots == DOMAIN reqs

Next ==
  \/ \E id \in Ids, total \in 1..MaxSeats, avail \in 0..MaxSeats, st \in Statuses :
       Create(id, total, avail, st)
  \/ \E id \in Ids, body \in UpdateBodies : Update(id, body)
  \/ \E id \in Ids : Delete(id)
  \/ \E r \in Slots, id \in Ids, q \in Quantities : ReserveRead(r, id, q)
  \/ \E r \in Slots : ReserveWrite(r)
  \/ \E r \in Slots, id \in Ids, q \in Quantities : ReleaseRead(r, id, q)
  \/ \E r \in Slots : ReleaseWrite(r)
  \/ \E r \in Slots, id \in RequestIds : Get(r, id)
  \/ \E r \in Slots : Finish(r)
  \/ Tick

Spec == Init /\ [][Next]_vars

(* ---------------- concurrent Reserve calls on one ticket ---------------- *)
\* A fresh ticket with N seats (availableSeats = totalSeats = N) and NumCalls
\* Reserve calls with positive quantities, each made once, interleaved freely.
InitReserve ==
  /\ \E n \in 1..MaxSeats : tickets = Seeded(n)
  /\ nextId = 2
  /\ reqs = [r \in 1..NumCalls |-> Idle]
  /\ clock = 0

NextReserve ==
  \/ \E r \in Slots, q \in ValidQuantities : ReserveRead(r, 1, q)
  \/ \E r \in Slots : ReserveWrite(r)

SpecReserve == InitReserve /\ [][NextReserve]_vars

(* ----------- concurrent Reserve and Release calls on one ticket --------- *)
NextLedger ==
  \/ \E r \in Slots, q \in ValidQuantities : ReserveRead(r, 1, q)
  \/ \E r \in Slots : ReserveWrite(r)
  \/ \E r \in Slots, q \in ValidQuantities : ReleaseRead(r, 1, q)
  \/ \E r \in Slots : ReleaseWrite(r)

SpecLedger == InitReserve /\ [][NextLedger]_vars

(* ------------------------- outcome bookkeeping -------------------------- *)
Succeeded(r, op) ==
  reqs[r].pc = "done" /\ reqs[r].op = op /\ reqs[r].resp = 200

Rejected(r, op, code) ==
  reqs[r].pc = "done" /\ reqs[r].op = op /\ reqs[r].resp = code

AllAnswered == \A r \in Slots : reqs[r].pc = "done"

RECURSIVE TotalQuantity(_, _)
\* total quantity of the calls of kind op in S that answered 200
TotalQuantity(S, op) ==
  IF S = {} THEN 0
  ELSE LET r == CHOOSE x \in S : TRUE
       IN  (IF Succeeded(r, op) THEN reqs[r].quantity ELSE 0)
             + TotalQuantity(S \ {r}, op)

\* the seats the ticket of the concurrent scenarios started with: it starts
\* with availableSeats = totalSeats and no call there changes totalSeats
StartSeats == tickets[1].totalSeats

(* ================================ C1 ==================================== *)
\* C1: for concurrent Reserve calls on one ticket, in every interleaving the
\* total quantity of the calls that answered success never exceeds the
\* availableSeats the ticket started with, and the stored availableSeats is
\* never negative.
C1_NoOversell ==
  /\ TotalQuantity(Slots, "reserve") <= StartSeats
  /\ tickets[1].availableSeats >= 0

(* ================================ C2 ==================================== *)
\* C2: K concurrent Reserve calls of q seats each on a ticket with N seats,
\* K*q > N: once all have answered, exactly N div q succeeded, exactly
\* K - (N div q) answered 400 (insufficient seats), and N mod q seats are left.
C2_ExactOutcome ==
  \A q \in ValidQuantities :
    ( /\ AllAnswered
      /\ \A r \in Slots : reqs[r].op = "reserve" /\ reqs[r].quantity = q
      /\ Cardinality(Slots) * q > StartSeats )
    => /\ Cardinality({r \in Slots : Succeeded(r, "reserve")}) = StartSeats \div q
       /\ Cardinality({r \in Slots : Rejected(r, "reserve", 400)})
            = Cardinality(Slots) - (StartSeats \div q)
       /\ tickets[1].availableSeats = StartSeats % q

(* ================================ C4 ==================================== *)
\* C4: with concurrent Reserve and Release calls on one ticket, once all
\* calls have answered the stored availableSeats is the starting count minus
\* the successful reservations plus the releases (no update is lost).
C4_NoLostUpdate ==
  AllAnswered =>
    tickets[1].availableSeats =
      StartSeats - TotalQuantity(Slots, "reserve") + TotalQuantity(Slots, "release")

(* ================================ C3 ==================================== *)
\* C3: every stored ticket has 0 <= availableSeats <= totalSeats.
C3_SeatsWithinBounds ==
  \A i \in Live :
    /\ 0 <= tickets[i].availableSeats
    /\ tickets[i].availableSeats <= tickets[i].totalSeats

(* ================================ C5 ==================================== *)
\* C5: a stored ticket whose status is sold-out has availableSeats = 0.
C5_SoldOutMeansNoSeats ==
  \A i \in Live : tickets[i].status = "sold-out" => tickets[i].availableSeats = 0

(* ================================ C6 ==================================== *)
\* C6: the save of a Reserve or a Release never changes the status of a
\* ticket whose stored status is cancelled or completed.
C6_AdminStatusKept ==
  [][\A r \in Slots :
       (ReserveWrite(r) \/ ReleaseWrite(r)) =>
         LET i == reqs[r].id
         IN  (tickets[i].exists /\ tickets[i].status \in {"cancelled", "completed"})
               => tickets'[i].status = tickets[i].status]_vars

(* ================================ C7 ==================================== *)
\* C7: a Reserve that finds fewer availableSeats than its quantity answers
\* 400 at once (it never reaches save) and the store is left as it was.
C7_InsufficientRejected ==
  [][\A r \in Slots, i \in Ids, q \in Quantities :
       (ReserveRead(r, i, q) /\ tickets[i].exists /\ q > tickets[i].availableSeats)
         => /\ reqs'[r].pc = "done"
            /\ reqs'[r].resp = 400
            /\ tickets' = tickets]_vars

\* a Reserve of one seat more than the ticket has was answered 400
C7_Witness ==
  \E r \in Slots :
    /\ Rejected(r, "reserve", 400)
    /\ tickets[reqs[r].id].exists
    /\ reqs[r].quantity = tickets[reqs[r].id].availableSeats + 1

(* ================================ C8 ==================================== *)
\* C8: a Reserve or Release of an existing ticket with a quantity that is
\* zero or negative is answered with an error at once and changes nothing.
C8_NonPositiveRejected ==
  [][\A r \in Slots, i \in Ids, q \in Quantities :
       ( /\ q <= 0
         /\ tickets[i].exists
         /\ (ReserveRead(r, i, q) \/ ReleaseRead(r, i, q)) )
         => /\ reqs'[r].pc = "done"
            /\ reqs'[r].resp >= 400
            /\ tickets' = tickets]_vars

(* ================================ C9 ==================================== *)
\* the step takes stored ticket i from sold-out to active
Reactivated(i) ==
  /\ tickets[i].exists /\ tickets'[i].exists
  /\ tickets[i].status = "sold-out"
  /\ tickets'[i].status = "active"

\* C9 as stated: every step that takes a ticket from sold-out to active is
\* the save of a Release that leaves availableSeats above 0.
C9_OnlyReleaseReactivates ==
  [][\A i \in Ids :
       Reactivated(i) =>
         \E r \in Slots :
           ReleaseWrite(r) /\ reqs[r].id = i /\ tickets'[i].availableSeats > 0]_vars

\* C9 amended: every step that takes a ticket from sold-out to active is
\* either the save of a Release that computed an availableSeats above 0 (and
\* stores it, unless its quantity is 0) or an Update whose body supplies
\* status active; no Reserve, Create or Delete step does it.
C9_ReleaseOrUpdateReactivates ==
  [][\A i \in Ids :
       Reactivated(i) =>
         \/ \E r \in Slots :
              /\ ReleaseWrite(r) /\ reqs[r].id = i
              /\ reqs[r].doc.availableSeats > 0
              /\ reqs[r].quantity # 0 => tickets'[i].availableSeats > 0
         \/ \E body \in UpdateBodies :
              /\ Update(i, body)
              /\ Supplies(body, "status") /\ body.status = "active"]_vars

\* a Release that loaded a sold-out ticket has saved it as active with seats
C9_Witness ==
  \E r \in Slots :
    /\ Succeeded(r, "release")
    /\ reqs[r].orig.status = "sold-out"
    /\ reqs[r].doc.status = "active"
    /\ tickets[reqs[r].id].status = "active"
    /\ tickets[reqs[r].id].availableSeats > 0

(* ================================ C10 =================================== *)
\* C10: a Reserve whose quantity equals the availableSeats it finds is not
\* rejected; its save answers 200 with a document that has availableSeats 0
\* and status sold-out, stores availableSeats 0 (for a quantity other than 0)
\* and stores status sold-out (when the loaded status was another one); when
\* the stored ticket is still as loaded, the stored result is exactly
\* availableSeats 0 with status sold-out.  The save of a Reserve that leaves
\* availableSeats above 0 does not change the stored status.
C10_ExactReserveSellsOut ==
  [][/\ \A r \in Slots, i \in Ids, q \in Quantities :
          (ReserveRead(r, i, q) /\ tickets[i].exists /\ q = tickets[i].availableSeats)
            => reqs'[r].pc = "save"
     /\ \A r \in Slots :
          (ReserveWrite(r) /\ tickets[reqs[r].id].exists) =>
            LET s == reqs[r]
                i == reqs[r].id
            IN  /\ reqs'[r].resp = 200
                /\ s.orig.availableSeats = s.quantity =>
                     /\ reqs'[r].doc.availableSeats = 0
                     /\ reqs'[r].doc.status = "sold-out"
                     /\ s.quantity # 0 => tickets'[i].availableSeats = 0
                     /\ s.orig.status # "sold-out" => tickets'[i].status = "sold-out"
                     /\ tickets[i] = s.orig =>
                          /\ tickets'[i].availableSeats = 0
                          /\ tickets'[i].status = "sold-out"
                /\ s.doc.availableSeats > 0 =>
                     tickets'[i].status = tickets[i].status]_vars

\* a Reserve of exactly the seats an active ticket had left has answered 200
\* and the ticket is stored sold-out with no seats
C10_Witness ==
  \E r \in Slots :
    /\ Succeeded(r, "reserve")
    /\ reqs[r].quantity > 0
    /\ reqs[r].orig.availableSeats = reqs[r].quantity
    /\ reqs[r].orig.status = "active"
    /\ tickets[reqs[r].id].availableSeats = 0
    /\ tickets[reqs[r].id].status = "sold-out"

\* a Reserve that left seats has answered 200 on a ticket that stays active
C10_WitnessPartial ==
  \E r \in Slots :
    /\ Succeeded(r, "reserve")
    /\ reqs[r].doc.availableSeats > 0
    /\ tickets[reqs[r].id].status = "active"

(* ================================ C11 =================================== *)
\* C11: the save of a Release stores status active exactly when the Release
\* loaded the ticket as sold-out and computed an availableSeats above 0 (so a
\* Release of at least 1 seat after a Reserve took the last seats
\* reactivates the ticket); every other Release save leaves the stored
\* status as it was, and the document it answers with has the same status it
\* loaded.
C11_ReleaseReactivates ==
  [][\A r \in Slots :
       (ReleaseWrite(r) /\ tickets[reqs[r].id].exists) =>
         LET s == reqs[r]
             i == reqs[r].id
         IN  IF s.orig.status = "sold-out" /\ s.orig.availableSeats + s.quantity > 0
             THEN /\ tickets'[i].status = "active"
                  /\ reqs'[r].doc.status = "active"
             ELSE /\ tickets'[i].status = tickets[i].status
                  /\ reqs'[r].doc.status = s.orig.status]_vars

\* a Release of at least one seat was saved on a ticket it loaded sold-out
\* with no seats, and the ticket is stored active
C11_Witness ==
  \E r \in Slots :
    /\ Succeeded(r, "release")
    /\ reqs[r].quantity >= 1
    /\ reqs[r].orig.status = "sold-out"
    /\ reqs[r].orig.availableSeats = 0
    /\ tickets[reqs[r].id].status = "active"
    /\ tickets[reqs[r].id].availableSeats = reqs[r].quantity

(* ================================ C12 =================================== *)
\* C12: a Release that is saved adds exactly its quantity to the
\* availableSeats it loaded, with no clamping: the document it answers with,
\* and (for a quantity other than 0) the stored ticket, have the loaded
\* availableSeats plus the quantity; when the ticket was not changed since it
\* was loaded and the quantity exceeds totalSeats - availableSeats, the stored
\* availableSeats ends above totalSeats.
C12_ReleaseUnclamped ==
  [][\A r \in Slots :
       (ReleaseWrite(r) /\ tickets[reqs[r].id].exists) =>
         LET s == reqs[r]
             i == reqs[r].id
         IN  /\ reqs'[r].resp = 200
             /\ reqs'[r].doc.availableSeats = s.orig.availableSeats + s.quantity
             /\ s.quantity # 0 =>
                  tickets'[i].availableSeats = s.orig.availableSeats + s.quantity
             /\ tickets[i] = s.orig =>
                  /\ tickets'[i].availableSeats = tickets[i].availableSeats + s.quantity
                  /\ s.quantity > tickets[i].totalSeats - tickets[i].availableSeats
                       => tickets'[i].availableSeats > tickets'[i].totalSeats]_vars

\* a Release of more seats than were missing was saved and the ticket is
\* stored with more availableSeats than totalSeats
C12_Witness ==
  \E r \in Slots :
    /\ Succeeded(r, "release")
    /\ reqs[r].quantity > reqs[r].orig.totalSeats - reqs[r].orig.availableSeats
    /\ tickets[reqs[r].id].exists
    /\ tickets[reqs[r].id].availableSeats = reqs[r].orig.availableSeats + reqs[r].quantity
    /\ tickets[reqs[r].id].availableSeats > tickets[reqs[r].id].totalSeats

(* ================================ C14 =================================== *)
\* an identifier that was handed out and has no document now: its ticket
\* was deleted
Deleted(i) == i < nextId /\ ~tickets[i].exists

\* C14: once a ticket has been deleted, no step stores a document under its
\* identifier again (neither a later operation nor the save of a Reserve or
\* Release that was in flight), and every Get of it answers 404.
C14_DeletedStaysDeleted ==
  [][\A i \in Ids :
       Deleted(i) =>
         /\ ~tickets'[i].exists
         /\ \A r \in Slots : Get(r, i) => reqs'[r].resp = 404]_vars

\* the part of C14 about requests in flight: the save of a Reserve or
\* Release whose ticket was deleted after it was loaded stores nothing and
\* answers 500
C14_SaveDoesNotRestore ==
  [][\A r \in Slots :
       ((ReserveWrite(r) \/ ReleaseWrite(r)) /\ Deleted(reqs[r].id))
         => tickets' = tickets /\ reqs'[r].resp = 500]_vars

(* ================================ C15 =================================== *)
\* C15: a Get answers 404 when no ticket has the identifier and also when
\* the identifier is malformed (never a server error).
C15_GetNotFound ==
  [][\A r \in Slots, id \in RequestIds :
       (Get(r, id) /\ (~CastsToObjectId(id) \/ ~tickets[id].exists))
         => reqs'[r].resp = 404]_vars

(* ------------- seat operations and updates on two tickets --------------- *)
\* Two seeded tickets; Reserve and Release calls on either, interleaved with
\* Updates that change totalSeats and with the clock.
InitTwo ==
  /\ tickets = [i \in Ids |-> IF i <= 2 THEN NewTicket(MaxSeats, MaxSeats, "active", 0)
                              ELSE NoTicket]
  /\ nextId = 3
  /\ reqs = [r \in 1..MaxReq |-> Idle]
  /\ clock = 0

NextTwo ==
  \/ \E id \in Ids, body \in [totalSeats : 1..MaxSeats] : Update(id, body)
  \/ \E r \in Slots, id \in Ids, q \in ValidQuantities : ReserveRead(r, id, q)
  \/ \E r \in Slots : ReserveWrite(r)
  \/ \E r \in Slots, id \in Ids, q \in ValidQuantities : ReleaseRead(r, id, q)
  \/ \E r \in Slots : ReleaseWrite(r)
  \/ \E r \in Slots : Finish(r)
  \/ Tick

SpecTwo == InitTwo /\ [][NextTwo]_vars

(* ================================ C13 =================================== *)
\* C13: a Reserve or Release changes nothing in the store before its save,
\* and its save changes only availableSeats, status and updatedAt of its own
\* ticket: totalSeats of that ticket keeps the value stored at that moment
\* (also when an Update changed it after the ticket was loaded) and every
\* other ticket is untouched.
C13_SeatOpsFrame ==
  [][/\ \A r \in Slots, i \in Ids, q \in Quantities :
          (ReserveRead(r, i, q) \/ ReleaseRead(r, i, q)) => tickets' = tickets
     /\ \A r \in Slots :
          (ReserveWrite(r) \/ ReleaseWrite(r)) =>
            \A i \in Ids :
              IF i = reqs[r].id
              THEN /\ tickets'[i].totalSeats = tickets[i].totalSeats
                   /\ tickets'[i].exists = tickets[i].exists
              ELSE tickets'[i] = tickets[i]]_vars

\* a Reserve or Release was saved on a ticket whose totalSeats an Update had
\* changed after it was loaded; the new totalSeats is still stored, and
\* another ticket is stored beside it
C13_Witness ==
  \E r \in Slots :
    /\ reqs[r].pc = "done" /\ reqs[r].resp = 200
    /\ reqs[r].op \in {"reserve", "release"}
    /\ tickets[reqs[r].id].exists
    /\ tickets[reqs[r].id].totalSeats # reqs[r].orig.totalSeats
    /\ tickets[reqs[r].id].availableSeats = reqs[r].doc.availableSeats
    /\ \E j \in Live : j # reqs[r].id

(* ------------------- administration with unchecked bodies --------------- *)
\* findByIdAndUpdate is called without runValidators: the body is cast to the
\* schema types (any string is a String) and the enum validators do not run.
\* The bodies here include a status outside the enum.
BogusStatus == "bogus"

AdminBodies == UpdateBodies \cup [status : {BogusStatus}]

NextAdmin ==
  \/ \E id \in Ids, total \in 1..MaxSeats, avail \in 0..MaxSeats, st \in Statuses :
       Create(id, total, avail, st)
  \/ \E id \in Ids, body \in AdminBodies : Update(id, body)
  \/ \E id \in Ids : Delete(id)
  \/ \E r \in Slots, id \in RequestIds : Get(r, id)
  \/ \E r \in Slots : Finish(r)
  \/ Tick

SpecAdmin == Init /\ [][NextAdmin]_vars

(* ================================ C16 =================================== *)
\* C16: an Update whose body supplies a status outside the enum stores
\* nothing, and every stored ticket has a status of the enum.
C16_UpdateKeepsEnums ==
  [][/\ \A id \in Ids, body \in AdminBodies :
          ( /\ Update(id, body)
            /\ Supplies(body, "status") /\ body.status \notin Statuses )
            => tickets' = tickets
     /\ \A i \in Ids : tickets'[i].exists => tickets'[i].status \in Statuses]_vars

(* ------------- readers beside concurrent Reserve and Release ------------ *)
\* The calls of SpecLedger with Get calls among them, each made once.
NextObserve ==
  \/ \E r \in Slots, q \in ValidQuantities : ReserveRead(r, 1, q)
  \/ \E r \in Slots : ReserveWrite(r)
  \/ \E r \in Slots, q \in ValidQuantities : ReleaseRead(r, 1, q)
  \/ \E r \in Slots : ReleaseWrite(r)
  \/ \E r \in Slots : Get(r, 1)

SpecObserve == InitReserve /\ [][NextObserve]_vars

(* ================================ C17 =================================== *)
\* C17: a Get answers with the stored record as it is at one moment, and the
\* save of a Reserve or Release installs all its changes in one step: the
\* step in which a Reserve stores availableSeats 0 also stores status
\* sold-out (for a ticket it loaded with another status), and the step in
\* which a Release stores its seat count also stores status active when it
\* reactivates the ticket.  No state in between exists for a reader to see.
C17_NoPartialSave ==
  [][/\ \A r \in Slots :
          (Get(r, 1) /\ tickets[1].exists) => reqs'[r].doc = tickets[1]
     /\ \A r \in Slots :
          (ReserveWrite(r) /\ tickets[reqs[r].id].exists) =>
            LET s == reqs[r]
                i == reqs[r].id
            IN  (s.doc.availableSeats = 0 /\ s.orig.availableSeats # 0
                   /\ s.orig.status # "sold-out")
                  => /\ tickets'[i].availableSeats = 0
                     /\ tickets'[i].status = "sold-out"
     /\ \A r \in Slots :
          (ReleaseWrite(r) /\ tickets[reqs[r].id].exists) =>
            LET s == reqs[r]
                i == reqs[r].id
            IN  (s.quantity # 0 /\ s.orig.status = "sold-out" /\ s.doc.status = "active")
                  => /\ tickets'[i].availableSeats = s.doc.availableSeats
                     /\ tickets'[i].status = "active"]_vars

\* a Get that answered while one Reserve of the last seats was between
\* findById and save saw the record whole as that Reserve loaded it, and a
\* second Reserve of the last seats has been saved: the ticket is stored with
\* 0 seats and sold-out
C17_Witness ==
  \E g \in Slots, r \in Slots, w \in Slots :
    /\ reqs[g].op = "get" /\ reqs[g].resp = 200
    /\ reqs[r].op = "reserve" /\ reqs[r].pc = "save"
    /\ reqs[r].doc.availableSeats = 0 /\ reqs[r].doc.status = "sold-out"
    /\ reqs[g].doc = reqs[r].orig
    /\ Succeeded(w, "reserve") /\ reqs[w].doc.availableSeats = 0
    /\ tickets[1].availableSeats = 0 /\ tickets[1].status = "sold-out"

(* ------------------- requests against a failing store ------------------- *)
\* Get, Reserve, Release and Delete on the seeded ticket, where any storage
\* call may reject.  A save() that is pending is eventually settled by the
\* store: that is the fairness assumed, per request.
NextLive ==
  \/ \E id \in Ids : Delete(id)
  \/ \E r \in Slots, id \in Ids, q \in ValidQuantities : ReserveRead(r, id, q)
  \/ \E r \in Slots : ReserveWrite(r)
  \/ \E r \in Slots, id \in Ids, q \in ValidQuantities : ReleaseRead(r, id, q)
  \/ \E r \in Slots : ReleaseWrite(r)
  \/ \E r \in Slots, id \in RequestIds : Get(r, id)
  \/ \E r \in Slots, op \in {"get", "reserve", "release"}, id \in Ids,
        q \in ValidQuantities : ReadFail(r, op, id, IF op = "get" THEN 0 ELSE q)
  \/ \E r \in Slots : SaveFail(r)
  \/ \E r \in Slots : Finish(r)
  \/ Tick

FairLive == \A r \in 1..MaxReq : WF_vars(ReserveWrite(r) \/ ReleaseWrite(r))

SpecLive == Init /\ [][NextLive]_vars /\ FairLive

C19_NoReserveOnSoldOut ==
  [][\A r \in Slots :
       ( /\ ReserveWrite(r)
         /\ reqs[r].quantity > 0
         /\ reqs[r].orig.status = "sold-out"
         /\ tickets[reqs[r].id].exists
         /\ tickets[reqs[r].id].status = "sold-out" )
         => reqs'[r].resp # 200]_vars

====
